---- MODULE Spec2Model ----
(***************************************************************************)
(* Model of the TransactionQueue class (zkTransactionQueue.ts): the        *)
(* pending list, the active slot, the processQueue worker loop, the        *)
(* per-item timeout timer and completed_/failed_ listeners installed by    *)
(* submit(), clearQueue(), shutdown(), pause() and resume().               *)
(*                                                                         *)
(* One Submit call = one caller index i in Items; the item id generated    *)
(* by submit() is represented by that index.                               *)
(*                                                                         *)
(* The second part models the connection management of server.ts: the     *)
(* zkSession handle, attemptReconnection, monitorSessionConnection and    *)
(* its provider listeners, submitProofTransaction and the connection      *)
(* check of POST /verify-score.                                            *)
(***************************************************************************)
EXTENDS Integers, Sequences, FiniteSets, TLC

\* ---------------------------------------------------------------- bounds
MaxItems == 2
MaxRetryAttempts == 1
MaxWorkers == 2
MaxShutdowns == 2

Items == 1..MaxItems
WorkerIds == 1..MaxWorkers
ShutdownIds == 1..MaxShutdowns

\* sessions initializeZkSession() may create, /verify-score requests, and
\* attemptReconnection() invocations waiting at the same time
MaxSessions == 2
MaxRequests == 1
MaxReconnections == 2
\* largest maxConcurrent a queue is constructed with
MaxConcurrent == 2

\* process.env.QUEUE_MAX_CONCURRENT || '1'
QUEUE_MAX_CONCURRENT == 1

SessionIds == 1..MaxSessions
Requests == 1..MaxRequests

\* ------------------------------------------------------ server constants
MAX_RECONNECTION_ATTEMPTS == 10
BASE_RECONNECT_DELAY == 1000
RECONNECT_DELAY_CAP == 30000

\* ------------------------------------------------------- error messages
\* Messages a submitter may reject with, as character sequences.
MsgPriorityTooLow ==
  <<"P","r","i","o","r","i","t","y"," ","i","s"," ","t","o","o"," ","l","o","w">>
MsgTestError == <<"T","e","s","t"," ","e","r","r","o","r">>
MsgInsufficientFunds ==
  <<"I","n","v","a","l","i","d"," ","T","r","a","n","s","a","c","t","i","o","n",
    ":"," ","i","n","s","u","f","f","i","c","i","e","n","t"," ","f","u","n","d","s">>
MsgStaleNonce ==
  <<"S","t","a","l","e"," ","n","o","n","c","e"," ","d","e","t","e","c","t","e","d">>
\* what submitProofTransaction throws without a live session
MsgSessionNotAvailable ==
  <<"z","k","V","e","r","i","f","y"," ","s","e","s","s","i","o","n"," ",
    "n","o","t"," ","a","v","a","i","l","a","b","l","e">>

ErrorNames == {"PriorityTooLow", "TestError", "InsufficientFunds", "StaleNonce"}

MessageText(name) ==
  CASE name = "PriorityTooLow" -> MsgPriorityTooLow
    [] name = "TestError" -> MsgTestError
    [] name = "InsufficientFunds" -> MsgInsufficientFunds
    [] name = "StaleNonce" -> MsgStaleNonce

\* String.prototype.includes on character sequences
Includes(s, sub) ==
  \E k \in 0..(Len(s) - Len(sub)) : SubSeq(s, k + 1, k + Len(sub)) = sub

PhrasePriority == MsgPriorityTooLow
Phrase1014 == <<"1","0","1","4">>
PhraseInPool ==
  <<"T","r","a","n","s","a","c","t","i","o","n"," ","i","s"," ",
    "a","l","r","e","a","d","y"," ","i","n"," ","t","h","e"," ","p","o","o","l">>
PhraseInvalidTx ==
  <<"I","n","v","a","l","i","d"," ","T","r","a","n","s","a","c","t","i","o","n">>

\* String.prototype.toLowerCase
UpperCase ==
  <<"A","B","C","D","E","F","G","H","I","J","K","L","M",
    "N","O","P","Q","R","S","T","U","V","W","X","Y","Z">>
LowerCase ==
  <<"a","b","c","d","e","f","g","h","i","j","k","l","m",
    "n","o","p","q","r","s","t","u","v","w","x","y","z">>
toLowerChar(c) ==
  IF \E k \in 1..Len(UpperCase) : UpperCase[k] = c
  THEN LowerCase[CHOOSE k \in 1..Len(UpperCase) : UpperCase[k] = c]
  ELSE c
toLowerCase(s) == [k \in 1..Len(s) |-> toLowerChar(s[k])]

\* isNonceConflict as PHASE2_BUG_FIXES.md documents it ("After"): lower-cased
\* message, the nonce phrases, "invalid transaction" only along with "nonce"
isNonceConflictDocumented(errorMessage) ==
  LET lowerMessage == toLowerCase(errorMessage)
      has(phrase) == Includes(lowerMessage, toLowerCase(phrase))
  IN \/ has(PhrasePriority)
     \/ has(PhraseInvalidTx) /\ has(<<"n","o","n","c","e">>)
     \/ has(<<"s","t","a","l","e"," ","n","o","n","c","e">>)
     \/ has(<<"n","o","n","c","e"," ","t","o","o"," ","l","o","w">>)
     \/ has(<<"n","o","n","c","e"," ","m","i","s","m","a","t","c","h">>)
     \/ has(PhraseInPool)
     \/ has(Phrase1014)

\* isNonceConflict as zkTransactionQueue.ts has it
isNonceConflict(errorMessage) ==
  \/ Includes(errorMessage, PhrasePriority)
  \/ Includes(errorMessage, Phrase1014)
  \/ Includes(errorMessage, PhraseInPool)
  \/ Includes(errorMessage, PhraseInvalidTx)

\* ----------------------------------------------------------------- state
VARIABLES
  config,                 \* QueueConfig given to the constructor
  queue,                  \* pending list (sequence of item ids)
  activeTransaction,      \* ActiveTransactionInfo, NoTransaction for null
  isProcessing,
  isShuttingDown,
  lastCompletedTimestamp, \* 0 for null
  totalProcessed,
  totalFailed,
  retryCount,             \* item.retryCount
  timestamp,              \* item.timestamp
  worker,                 \* processQueue invocations: position and item
  promise,                \* state of the promise returned by submit()
  outcome,                \* what the promise was settled with
  settleCalls,            \* number of resolve/reject calls made on it
  itemTimeout,            \* the setTimeout handle of submit()
  completedListener,      \* once(`completed_${id}`) still registered
  failedListener,         \* once(`failed_${id}`) still registered
  submitterCalls,         \* submitter.submit invocations per item
  shutdownCall,           \* shutdown() invocations: position
  clearResult,            \* what clearQueue() returned, when it is the call
                          \* that just ran (NoClear otherwise)
  lastAttempt,            \* item and outcome of the submitter call whose
                          \* return the last step handled (NoAttempt otherwise)
  clock,                  \* Date.now(): logical time, advanced by every reading
  \* server.ts
  phase,                  \* start(): "starting", "running", or "exited"
  zkSession,              \* the session handle, 0 for null
  sessionsCreated,        \* sessions initializeZkSession() has returned
  isConnected,            \* provider.isConnected of each session
  onDisconnected,         \* 'disconnected' listener registered on the provider
  onConnected,            \* 'connected' listener registered on the provider
  disconnectCleanup,      \* session whose 'connected' listener it removes, 0 for null
  isReconnecting,
  reconnectionAttempts,
  backoffTimers,          \* attemptReconnection() calls awaiting their delay
  handshakes,             \* attemptReconnection() calls awaiting initializeZkSession()
  retryTimers,            \* setTimeout(() => attemptReconnection(), 0) pending
  delay,                  \* the delay attemptReconnection() computed last
  gaveUp,                 \* attemptReconnection() has returned at "Giving up"
  request,                \* each /verify-score request: how far it got
  \* the catch of the /verify-score handler
  error,                  \* the error caught last (NoError before the first)
  errorType,              \* what categorizeTransactionError returned for it
  failureType,            \* the type logFailure() was called with for it
  notified                \* per item, the lifecycle notification emitted last

queueVars == <<queue, activeTransaction, isProcessing, isShuttingDown,
               lastCompletedTimestamp, totalProcessed, totalFailed>>
itemVars == <<retryCount, timestamp, submitterCalls>>
callerVars == <<promise, outcome, settleCalls, itemTimeout,
                completedListener, failedListener>>
queueModuleVars == <<config, queueVars, itemVars, callerVars, worker,
                     shutdownCall, clearResult, lastAttempt, clock, notified>>
sessionVars == <<zkSession, sessionsCreated, isConnected, onDisconnected,
                 onConnected, disconnectCleanup>>
reconnectVars == <<isReconnecting, reconnectionAttempts, backoffTimers,
                   handshakes, retryTimers, delay, gaveUp>>
serverVars == <<phase, sessionVars, reconnectVars, request>>
classifierVars == <<error, errorType, failureType>>
vars == <<queueModuleVars, serverVars, classifierVars>>

NoTransaction == [id |-> 0, timestamp |-> 0, retryCount |-> 0]
IdleWorker == [pc |-> "idle", item |-> 0]
NoClear == [cleared |-> -1, activeInterrupted |-> FALSE]
NoAttempt == [item |-> 0, result |-> "none"]
NoError == [phrases |-> <<>>, upper |-> FALSE]

\* the state after new TransactionQueue(config, submitter) with
\* config.maxConcurrent drawn from maxConcurrents
InitWith(maxConcurrents) ==
  /\ config \in [retryAttempts : 0..MaxRetryAttempts,
                 maxConcurrent : maxConcurrents]
  /\ queue = <<>>
  /\ activeTransaction = NoTransaction
  /\ isProcessing = FALSE
  /\ isShuttingDown = FALSE
  /\ lastCompletedTimestamp = 0
  /\ totalProcessed = 0
  /\ totalFailed = 0
  /\ retryCount = [i \in Items |-> 0]
  /\ timestamp = [i \in Items |-> 0]
  /\ worker = [w \in WorkerIds |-> IdleWorker]
  /\ promise = [i \in Items |-> "none"]
  /\ outcome = [i \in Items |-> "none"]
  /\ settleCalls = [i \in Items |-> 0]
  /\ itemTimeout = [i \in Items |-> "unset"]
  /\ completedListener = [i \in Items |-> FALSE]
  /\ failedListener = [i \in Items |-> FALSE]
  /\ submitterCalls = [i \in Items |-> 0]
  /\ shutdownCall = [s \in ShutdownIds |-> "idle"]
  /\ clearResult = NoClear
  /\ lastAttempt = NoAttempt
  /\ clock = 1
  /\ phase = "starting"
  /\ zkSession = 0
  /\ sessionsCreated = 0
  /\ isConnected = [s \in SessionIds |-> FALSE]
  /\ onDisconnected = [s \in SessionIds |-> FALSE]
  /\ onConnected = [s \in SessionIds |-> FALSE]
  /\ disconnectCleanup = 0
  /\ isReconnecting = FALSE
  /\ reconnectionAttempts = 0
  /\ backoffTimers = 0
  /\ handshakes = 0
  /\ retryTimers = 0
  /\ delay = 0
  /\ gaveUp = FALSE
  /\ request = [r \in Requests |-> "none"]
  /\ error = NoError
  /\ errorType = "none"
  /\ failureType = "none"
  /\ notified = [i \in Items |-> "none"]

\* the queue as server.ts constructs it by default
Init == InitWith({QUEUE_MAX_CONCURRENT})

\* ---------------------------------------------------------------- helpers
InQueue(i, q) == \E k \in 1..Len(q) : q[k] = i

\* queue.findIndex(...) followed by queue.splice(index, 1)
RemoveFirst(q, i) ==
  LET idx == CHOOSE k \in 1..Len(q) :
               /\ q[k] = i
               /\ \A j \in 1..(k - 1) : q[j] # i
  IN SubSeq(q, 1, idx - 1) \o SubSeq(q, idx + 1, Len(q))

InFlight(w) == worker[w].pc = "await"
InFlightItems == {worker[w].item : w \in {v \in WorkerIds : InFlight(v)}}

\* ------------------------------------------------- caller-side callbacks
\* resolve()/reject() of the promise created in submit(): only the first
\* call settles it, every call is counted.
SettledState(i, kind) == IF promise[i] = "pending" THEN kind ELSE promise[i]
SettledOutcome(i, what) == IF promise[i] = "pending" THEN what ELSE outcome[i]

\* clearTimeout(itemTimeout)
ClearedTimeout(i) == IF itemTimeout[i] = "armed" THEN "cleared" ELSE itemTimeout[i]

\* the event delivered to the oldest waiting caller instead of the item's
EmitCompletedForFirstListener(item) ==
  IF \E j \in Items : completedListener[j]
  THEN LET first == CHOOSE j \in Items :
                      /\ completedListener[j]
                      /\ \A k \in 1..(j - 1) : ~completedListener[k]
       IN /\ completedListener' = [completedListener EXCEPT ![first] = FALSE]
          /\ itemTimeout' = [itemTimeout EXCEPT ![first] = ClearedTimeout(first)]
          /\ promise' = [promise EXCEPT ![first] = SettledState(first, "resolved")]
          /\ outcome' = [outcome EXCEPT ![first] = SettledOutcome(first, "Result")]
          /\ settleCalls' = [settleCalls EXCEPT ![first] = @ + 1]
          /\ UNCHANGED failedListener
  ELSE UNCHANGED callerVars

\* this.emit(`completed_${item.id}`, result): the once-listener of submit()
EmitCompletedFor(item) ==
  IF completedListener[item]
  THEN /\ completedListener' = [completedListener EXCEPT ![item] = FALSE]
       /\ itemTimeout' = [itemTimeout EXCEPT ![item] = ClearedTimeout(item)]
       /\ promise' = [promise EXCEPT ![item] = SettledState(item, "resolved")]
       /\ outcome' = [outcome EXCEPT ![item] = SettledOutcome(item, "Result")]
       /\ settleCalls' = [settleCalls EXCEPT ![item] = @ + 1]
       /\ UNCHANGED failedListener
  ELSE UNCHANGED callerVars

\* this.emit(`failed_${item.id}`, error): the once-listener of submit()
EmitFailedFor(item, e) ==
  IF failedListener[item]
  THEN /\ failedListener' = [failedListener EXCEPT ![item] = FALSE]
       /\ itemTimeout' = [itemTimeout EXCEPT ![item] = ClearedTimeout(item)]
       /\ promise' = [promise EXCEPT ![item] = SettledState(item, "rejected")]
       /\ outcome' = [outcome EXCEPT ![item] = SettledOutcome(item, e)]
       /\ settleCalls' = [settleCalls EXCEPT ![item] = @ + 1]
       /\ UNCHANGED completedListener
  ELSE UNCHANGED callerVars

\* ------------------------------------------------------------ worker loop
\* Loop body up to the await: shift the head, fill the active slot, call
\* the submitter.  ip is the value isProcessing keeps, ts the timestamps.
StartAttempt(w, q, ip, ts) ==
  LET item == Head(q) IN
  /\ queue' = Tail(q)
  /\ activeTransaction' = [id |-> item, timestamp |-> ts[item],
                           retryCount |-> retryCount[item]]
  /\ worker' = [worker EXCEPT ![w] = [pc |-> "await", item |-> item]]
  /\ submitterCalls' = [submitterCalls EXCEPT ![item] = @ + 1]
  /\ isProcessing' = ip

\* the finally block of processQueue
Finally(w, q) ==
  /\ queue' = q
  /\ activeTransaction' = NoTransaction
  /\ worker' = [worker EXCEPT ![w] = IdleWorker]
  /\ isProcessing' = FALSE
  /\ UNCHANGED submitterCalls

LoopNextIgnoringShutdown(w, q, ip, ts) ==
  IF Len(q) > 0 THEN StartAttempt(w, q, ip, ts) ELSE Finally(w, q)

\* The while condition of processQueue evaluated by worker w on pending
\* list q: the next attempt starts or the loop ends.
LoopNext(w, q, ip, ts) ==
  IF Len(q) > 0 /\ ~isShuttingDown
  THEN StartAttempt(w, q, ip, ts)
  ELSE Finally(w, q)

\* a new processQueue invocation takes the first free worker slot
StartWorker(q, ts) ==
  \E w \in WorkerIds :
    /\ worker[w].pc = "idle"
    /\ \A v \in 1..(w - 1) : worker[v].pc # "idle"
    /\ LoopNext(w, q, TRUE, ts)

processQueueWithoutProcessingCheck(q, ts) ==
  IF Len(q) = 0 \/ isShuttingDown
  THEN /\ queue' = q
       /\ UNCHANGED <<activeTransaction, isProcessing, worker, submitterCalls>>
  ELSE StartWorker(q, ts)

\* a call of processQueue() with pending list q, up to its first await
processQueue(q, ts) ==
  IF isProcessing \/ Len(q) = 0 \/ isShuttingDown
  THEN /\ queue' = q
       /\ UNCHANGED <<activeTransaction, isProcessing, worker, submitterCalls>>
  ELSE StartWorker(q, ts)

\* Array.prototype.unshift / push
push(q, item) == Append(q, item)
unshift(q, item) == <<item>> \o q

\* ---------------------------------------------------------------- actions
\* the i-th call of submit() is the next one
NextCall(i) ==
  /\ promise[i] = "none"
  /\ \A j \in 1..(i - 1) : promise[j] # "none"

\* submit() throws: the returned promise is rejected, nothing else happens
SubmitRejects(i) ==
  /\ promise' = [promise EXCEPT ![i] = "rejected"]
  /\ outcome' = [outcome EXCEPT ![i] = "ShuttingDown"]
  /\ settleCalls' = [settleCalls EXCEPT ![i] = @ + 1]
  /\ UNCHANGED <<queueVars, itemVars, worker, itemTimeout,
                 completedListener, failedListener, clock>>

\* submit() enqueues, calls processQueue(), arms the timer and listeners
SubmitAccepts(i) ==
  LET ts == [timestamp EXCEPT ![i] = clock] IN
  /\ timestamp' = ts
  /\ clock' = clock + 1
  /\ processQueue(push(queue, i), ts)
  /\ promise' = [promise EXCEPT ![i] = "pending"]
  /\ itemTimeout' = [itemTimeout EXCEPT ![i] = "armed"]
  /\ completedListener' = [completedListener EXCEPT ![i] = TRUE]
  /\ failedListener' = [failedListener EXCEPT ![i] = TRUE]
  /\ UNCHANGED <<isShuttingDown, lastCompletedTimestamp, totalProcessed,
                 totalFailed, retryCount, outcome, settleCalls>>

SubmitWithoutShutdownCheck ==
  /\ \E i \in Items : NextCall(i) /\ SubmitAccepts(i)
  /\ UNCHANGED <<config, shutdownCall>>
  /\ clearResult' = NoClear
  /\ lastAttempt' = NoAttempt

Submit ==
  /\ \E i \in Items :
       /\ NextCall(i)
       /\ IF isShuttingDown THEN SubmitRejects(i) ELSE SubmitAccepts(i)
  /\ UNCHANGED <<config, shutdownCall>>
  /\ clearResult' = NoClear
  /\ lastAttempt' = NoAttempt

\* the submitter's promise resolves: try-branch of processQueue
AttemptSucceeds(w) ==
  /\ worker[w].pc = "await"
  /\ LET item == worker[w].item IN
       /\ lastCompletedTimestamp' = clock
       /\ clock' = clock + 1
       /\ totalProcessed' = totalProcessed + 1
       /\ EmitCompletedFor(item)
       /\ LoopNext(w, queue, isProcessing, timestamp)
       /\ lastAttempt' = [item |-> item, result |-> "Result"]
  /\ UNCHANGED <<config, isShuttingDown, totalFailed, retryCount, timestamp,
                 shutdownCall>>
  /\ clearResult' = NoClear

ScheduleRetryKeepingActive(w, item, q) ==
  /\ retryCount' = [retryCount EXCEPT ![item] = @ + 1]
  /\ queue' = q
  /\ worker' = [worker EXCEPT ![w] = [pc |-> "delay", item |-> item]]
  /\ UNCHANGED <<activeTransaction, isProcessing, totalFailed, submitterCalls,
                 callerVars>>

ScheduleRetryCountingFailure(w, item, q) ==
  /\ retryCount' = [retryCount EXCEPT ![item] = @ + 1]
  /\ queue' = q
  /\ activeTransaction' = NoTransaction
  /\ worker' = [worker EXCEPT ![w] = [pc |-> "delay", item |-> item]]
  /\ totalFailed' = totalFailed + 1
  /\ UNCHANGED <<isProcessing, submitterCalls, callerVars>>

\* catch-branch, retry: the item goes back to the pending list, which
\* becomes q, and the worker sleeps for retryDelay
ScheduleRetry(w, item, q) ==
  /\ retryCount' = [retryCount EXCEPT ![item] = @ + 1]
  /\ queue' = q
  /\ activeTransaction' = NoTransaction
  /\ worker' = [worker EXCEPT ![w] = [pc |-> "delay", item |-> item]]
  /\ UNCHANGED <<isProcessing, totalFailed, submitterCalls, callerVars>>

\* catch-branch, terminal failure
FailTerminally(w, item, e) ==
  /\ totalFailed' = totalFailed + 1
  /\ EmitFailedFor(item, e)
  /\ LoopNext(w, queue, isProcessing, timestamp)
  /\ UNCHANGED retryCount

AttemptFailsRequeueingAtTail(w, e) ==
  /\ worker[w].pc = "await"
  /\ LET item == worker[w].item IN
       /\ IF isNonceConflict(MessageText(e))
             /\ retryCount[item] < config.retryAttempts
          THEN ScheduleRetry(w, item, push(queue, item))
          ELSE FailTerminally(w, item, e)
       /\ lastAttempt' = [item |-> item, result |-> e]
  /\ UNCHANGED <<config, isShuttingDown, lastCompletedTimestamp, totalProcessed,
                 timestamp, shutdownCall, clock>>
  /\ clearResult' = NoClear

AttemptFailsRetryingOnceMore(w, e) ==
  /\ worker[w].pc = "await"
  /\ LET item == worker[w].item IN
       /\ IF isNonceConflict(MessageText(e))
             /\ retryCount[item] <= config.retryAttempts
          THEN ScheduleRetry(w, item, unshift(queue, item))
          ELSE FailTerminally(w, item, e)
       /\ lastAttempt' = [item |-> item, result |-> e]
  /\ UNCHANGED <<config, isShuttingDown, lastCompletedTimestamp, totalProcessed,
                 timestamp, shutdownCall, clock>>
  /\ clearResult' = NoClear

\* the submitter's promise rejects with message e: catch-branch
AttemptFails(w, e) ==
  /\ worker[w].pc = "await"
  /\ LET item == worker[w].item IN
       /\ IF isNonceConflict(MessageText(e))
             /\ retryCount[item] < config.retryAttempts
          THEN ScheduleRetry(w, item, unshift(queue, item))
          ELSE FailTerminally(w, item, e)
       /\ lastAttempt' = [item |-> item, result |-> e]
  /\ UNCHANGED <<config, isShuttingDown, lastCompletedTimestamp, totalProcessed,
                 timestamp, shutdownCall, clock>>
  /\ clearResult' = NoClear

\* await this.delay(retryDelay) returns: back to the while condition
DelayDone(w) ==
  /\ worker[w].pc = "delay"
  /\ LoopNext(w, queue, isProcessing, timestamp)
  /\ UNCHANGED <<config, isShuttingDown, lastCompletedTimestamp, totalProcessed,
                 totalFailed, retryCount, timestamp, callerVars, shutdownCall, clock>>
  /\ clearResult' = NoClear
  /\ lastAttempt' = NoAttempt

\* reject(new Error(`Transaction timeout after ...ms`))
RejectWithTimeout(i) ==
  /\ promise' = [promise EXCEPT ![i] = SettledState(i, "rejected")]
  /\ outcome' = [outcome EXCEPT ![i] = SettledOutcome(i, "Timeout")]
  /\ settleCalls' = [settleCalls EXCEPT ![i] = @ + 1]

\* what the timer callback leaves alone
TimeoutFrame ==
  /\ UNCHANGED <<config, activeTransaction, isProcessing, isShuttingDown,
                 lastCompletedTimestamp, totalProcessed, totalFailed, itemVars,
                 completedListener, failedListener, worker, shutdownCall, clock>>
  /\ clearResult' = NoClear
  /\ lastAttempt' = NoAttempt

TimeoutFiresRejectingAlways(i) ==
  /\ itemTimeout[i] = "armed"
  /\ itemTimeout' = [itemTimeout EXCEPT ![i] = "fired"]
  /\ queue' = IF InQueue(i, queue) THEN RemoveFirst(queue, i) ELSE queue
  /\ RejectWithTimeout(i)
  /\ TimeoutFrame

TimeoutFiresWithoutSplice(i) ==
  /\ itemTimeout[i] = "armed"
  /\ itemTimeout' = [itemTimeout EXCEPT ![i] = "fired"]
  /\ IF InQueue(i, queue)
     THEN /\ UNCHANGED queue
          /\ RejectWithTimeout(i)
     ELSE UNCHANGED <<queue, promise, outcome, settleCalls>>
  /\ TimeoutFrame

\* the setTimeout callback of submit() runs for item i
TimeoutFires(i) ==
  /\ itemTimeout[i] = "armed"
  /\ itemTimeout' = [itemTimeout EXCEPT ![i] = "fired"]
  /\ IF InQueue(i, queue)
     THEN /\ queue' = RemoveFirst(queue, i)
          /\ RejectWithTimeout(i)
     ELSE UNCHANGED <<queue, promise, outcome, settleCalls>>
  /\ TimeoutFrame

ClearQueueInterruptedWhileProcessing ==
  /\ clearResult' = [cleared |-> Len(queue), activeInterrupted |-> isProcessing]
  /\ queue' = <<>>
  /\ UNCHANGED <<config, activeTransaction, isProcessing, isShuttingDown,
                 lastCompletedTimestamp, totalProcessed, totalFailed, itemVars,
                 callerVars, worker, shutdownCall, clock>>
  /\ lastAttempt' = NoAttempt

ClearQueue ==
  /\ clearResult' = [cleared |-> Len(queue),
                     activeInterrupted |-> activeTransaction # NoTransaction]
  /\ queue' = <<>>
  /\ UNCHANGED <<config, activeTransaction, isProcessing, isShuttingDown,
                 lastCompletedTimestamp, totalProcessed, totalFailed, itemVars,
                 callerVars, worker, shutdownCall, clock>>
  /\ lastAttempt' = NoAttempt

\* this.removeAllListeners()
RemoveAllListeners ==
  /\ completedListener' = [i \in Items |-> FALSE]
  /\ failedListener' = [i \in Items |-> FALSE]

\* the s-th call of shutdown() is the next one
NextShutdown(s) ==
  /\ shutdownCall[s] = "idle"
  /\ \A t \in 1..(s - 1) : shutdownCall[t] # "idle"

\* shutdown() finds isProcessing set and sleeps in its while loop
ShutdownWaits(s) ==
  /\ shutdownCall' = [shutdownCall EXCEPT ![s] = "waiting"]
  /\ UNCHANGED <<completedListener, failedListener>>

\* shutdown() leaves its while loop, removes the listeners and returns
ShutdownReturns(s) ==
  /\ shutdownCall' = [shutdownCall EXCEPT ![s] = "returned"]
  /\ RemoveAllListeners

\* what shutdown() leaves alone
ShutdownFrame ==
  /\ UNCHANGED <<config, activeTransaction, isProcessing,
                 lastCompletedTimestamp, totalProcessed, totalFailed,
                 itemVars, promise, outcome, settleCalls, itemTimeout,
                 worker, clock>>
  /\ clearResult' = NoClear
  /\ lastAttempt' = NoAttempt

ShutdownBeginWithoutWaiting ==
  /\ \E s \in ShutdownIds : NextShutdown(s) /\ ShutdownReturns(s)
  /\ isShuttingDown' = TRUE
  /\ UNCHANGED queue
  /\ ShutdownFrame

ShutdownBeginClearingQueue ==
  /\ \E s \in ShutdownIds :
       /\ NextShutdown(s)
       /\ IF isProcessing THEN ShutdownWaits(s) ELSE ShutdownReturns(s)
  /\ isShuttingDown' = TRUE
  /\ queue' = <<>>
  /\ ShutdownFrame

\* shutdown() is called; it returns at once when isProcessing is false
ShutdownBegin ==
  /\ \E s \in ShutdownIds :
       /\ NextShutdown(s)
       /\ IF isProcessing THEN ShutdownWaits(s) ELSE ShutdownReturns(s)
  /\ isShuttingDown' = TRUE
  /\ UNCHANGED queue
  /\ ShutdownFrame

\* a waiting shutdown() wakes from delay(100) and finds isProcessing false
\* (waking while isProcessing is true changes nothing)
ShutdownPoll(s) ==
  /\ shutdownCall[s] = "waiting"
  /\ ~isProcessing
  /\ ShutdownReturns(s)
  /\ UNCHANGED <<queue, isShuttingDown>>
  /\ ShutdownFrame

Pause ==
  /\ isProcessing' = FALSE
  /\ UNCHANGED <<config, queue, activeTransaction, isShuttingDown,
                 lastCompletedTimestamp, totalProcessed, totalFailed, itemVars,
                 callerVars, worker, shutdownCall, clock>>
  /\ clearResult' = NoClear
  /\ lastAttempt' = NoAttempt

Resume ==
  /\ ~isProcessing /\ ~isShuttingDown
  /\ processQueue(queue, timestamp)
  /\ UNCHANGED <<config, isShuttingDown, lastCompletedTimestamp, totalProcessed,
                 totalFailed, retryCount, timestamp, callerVars, shutdownCall, clock>>
  /\ clearResult' = NoClear
  /\ lastAttempt' = NoAttempt

\* ---------------------------------------------------------- notifications
\* the lifecycle notifications a step of the queue emits for item i, in the
\* order of the code: emit('enqueued') in submit() before processQueue();
\* emit('completed'), emit('retry') or emit('failed') when the awaited
\* submitter call settles; emit('processing') when the loop shifts the item
EmittedFor(i) ==
  (IF promise[i] = "none" /\ promise'[i] = "pending"
   THEN <<"enqueued">> ELSE <<>>)
  \o (IF lastAttempt'.item # i THEN <<>>
      ELSE IF lastAttempt'.result = "Result" THEN <<"completed">>
      ELSE IF retryCount'[i] > retryCount[i] THEN <<"retry">>
      ELSE <<"failed">>)
  \o (IF submitterCalls'[i] > submitterCalls[i]
      THEN <<"processing">> ELSE <<>>)

\* the step's last notification for each item becomes its `notified`
Emitted ==
  notified' = [i \in Items |->
                 LET emitted == EmittedFor(i)
                 IN IF emitted = <<>> THEN notified[i]
                    ELSE emitted[Len(emitted)]]

\* ------------------------------------------------------- specifications
\* submit, clearQueue, shutdown, resume, the timers and the worker
Next ==
  \/ Submit /\ Emitted /\ UNCHANGED <<serverVars, classifierVars>>
  \/ \E w \in WorkerIds :
       AttemptSucceeds(w) /\ Emitted /\ UNCHANGED <<serverVars, classifierVars>>
  \/ \E w \in WorkerIds, e \in ErrorNames :
       AttemptFails(w, e) /\ Emitted /\ UNCHANGED <<serverVars, classifierVars>>
  \/ \E w \in WorkerIds :
       DelayDone(w) /\ Emitted /\ UNCHANGED <<serverVars, classifierVars>>
  \/ \E i \in Items :
       TimeoutFires(i) /\ Emitted /\ UNCHANGED <<serverVars, classifierVars>>
  \/ ClearQueue /\ Emitted /\ UNCHANGED <<serverVars, classifierVars>>
  \/ ShutdownBegin /\ Emitted /\ UNCHANGED <<serverVars, classifierVars>>
  \/ \E s \in ShutdownIds :
       ShutdownPoll(s) /\ Emitted /\ UNCHANGED <<serverVars, classifierVars>>
  \/ Resume /\ Emitted /\ UNCHANGED <<serverVars, classifierVars>>

Spec == Init /\ [][Next]_vars

\* the same with pause()
NextPause == Next \/ (Pause /\ Emitted /\ UNCHANGED <<serverVars, classifierVars>>)

SpecPause == Init /\ [][NextPause]_vars

\* the same queue constructed with any maxConcurrent
InitConcurrent == InitWith(1..MaxConcurrent)
SpecConcurrent == InitConcurrent /\ [][Next]_vars

TypeOK ==
  /\ \A k \in 1..Len(queue) : queue[k] \in Items
  /\ isProcessing \in BOOLEAN
  /\ isShuttingDown \in BOOLEAN
  /\ \A i \in Items : retryCount[i] \in 0..config.retryAttempts
  /\ \A w \in WorkerIds : worker[w].pc \in {"idle", "await", "delay"}

\* ------------------------------------------------------------ properties
AwaitingWorkers == {w \in WorkerIds : worker[w].pc = "await"}

\* C1: without pause(), at most one submitter call is outstanding at any
\* instant, and the active slot is either empty or names the item of that call.
AtMostOneInFlight ==
  /\ Cardinality(AwaitingWorkers) <= 1
  /\ activeTransaction # NoTransaction =>
       \E w \in AwaitingWorkers : worker[w].item = activeTransaction.id

\* a second item was submitted while the first is with the submitter
C1Witness ==
  /\ Cardinality(AwaitingWorkers) = 1
  /\ Len(queue) > 0
  /\ \A i \in Items : promise[i] = "pending"

\* nothing is left that could still run: no worker, no armed timer, no
\* shutdown() waiting
Quiescent ==
  /\ \A w \in WorkerIds : worker[w].pc = "idle"
  /\ \A i \in Items : itemTimeout[i] # "armed"
  /\ \A s \in ShutdownIds : shutdownCall[s] # "waiting"

\* C2: every accepted submit() has settled its promise once every submitter
\* call has returned and every timer has fired.
EverySubmitSettles ==
  Quiescent => \A i \in Items : promise[i] # "pending"

\* C3: resolve/reject is called at most once on the promise of each submit().
SettlesAtMostOnce == \A i \in Items : settleCalls[i] <= 1

\* the timer of an item fired during its attempt and the attempt then settled it
C3Witness ==
  \E i \in Items :
    /\ itemTimeout[i] = "fired"
    /\ promise[i] \in {"resolved", "rejected"}
    /\ outcome[i] # "Timeout"
    /\ settleCalls[i] = 1

\* C4: a timer firing while its item is with the submitter rejects the promise
\* with the timeout error and leaves the attempt running; a promise rejected
\* by timeout keeps that outcome.
TimeoutInFlightRejects ==
  [][\A i \in Items :
       /\ (/\ itemTimeout[i] = "armed"
           /\ itemTimeout'[i] = "fired"
           /\ i \in InFlightItems)
          => /\ promise'[i] = "rejected"
             /\ outcome'[i] = "Timeout"
             /\ worker' = worker
       /\ outcome[i] = "Timeout" => outcome'[i] = "Timeout"]_vars

\* C5: a timer firing while its item is in the pending list removes the item
\* and rejects the promise with the timeout error; once a promise is rejected
\* by timeout the submitter is not called for that item again.
TimeoutOfPendingItem ==
  [][\A i \in Items :
       /\ (/\ itemTimeout[i] = "armed"
           /\ itemTimeout'[i] = "fired"
           /\ InQueue(i, queue))
          => /\ ~InQueue(i, queue')
             /\ promise[i] = "pending"
             /\ promise'[i] = "rejected"
             /\ outcome'[i] = "Timeout"
       /\ outcome[i] = "Timeout" =>
            /\ submitterCalls'[i] = submitterCalls[i]
            /\ ~InQueue(i, queue')
            /\ i \notin InFlightItems']_vars

\* an item timed out before its first attempt while the worker went on
C5Witness ==
  \E i \in Items :
    /\ outcome[i] = "Timeout"
    /\ submitterCalls[i] = 0
    /\ \E j \in Items : j < i /\ totalProcessed + totalFailed > 0

\* C6: a submit() made while isShuttingDown is set is rejected with the
\* shutting-down error and changes neither the pending list, the active slot
\* nor the counters.
SubmitAfterShutdownRejected ==
  [][\A i \in Items :
       (isShuttingDown /\ promise[i] = "none" /\ promise'[i] # "none")
         => /\ promise'[i] = "rejected"
            /\ outcome'[i] = "ShuttingDown"
            /\ UNCHANGED <<queue, activeTransaction, totalProcessed,
                           totalFailed, submitterCalls, worker>>]_vars

\* a submit() was rejected while the first shutdown() still waits for the
\* attempt in flight
C6Witness ==
  /\ shutdownCall[1] = "waiting"
  /\ Cardinality(AwaitingWorkers) = 1
  /\ \E i \in Items : outcome[i] = "ShuttingDown"

\* C7: once a shutdown() has returned no submitter call is outstanding and
\* the active slot is empty.
ShutdownReturnsDrained ==
  (\E s \in ShutdownIds : shutdownCall[s] = "returned")
    => /\ AwaitingWorkers = {}
       /\ activeTransaction = NoTransaction
       /\ \A w \in WorkerIds : worker[w].pc = "idle"

\* shutdown() returned after waiting for an attempt: the item attempted is
\* settled, another one is still pending
C7Witness ==
  /\ shutdownCall[1] = "returned"
  /\ Len(queue) > 0
  /\ totalProcessed + totalFailed > 0

\* C8: while isShuttingDown is set no step calls the submitter.
NoAttemptAfterShutdown ==
  [][isShuttingDown => submitterCalls' = submitterCalls]_vars

\* shutdown began during an attempt that was then re-queued for retry: the
\* worker has stopped and the item stays pending
C8Witness ==
  /\ isShuttingDown
  /\ \A w \in WorkerIds : worker[w].pc = "idle"
  /\ \E i \in Items : InQueue(i, queue) /\ retryCount[i] > 0

\* C9: a step of shutdown() taken when isShuttingDown is already set (a second
\* call, or the return of a waiting call) keeps the flag set and changes
\* neither the pending list, the counters nor the active slot; a call made
\* after another call has returned returns at once.
ShutdownIdempotent ==
  [][(isShuttingDown /\ shutdownCall' # shutdownCall)
       => /\ isShuttingDown'
          /\ UNCHANGED <<queue, totalProcessed, totalFailed, activeTransaction,
                         lastCompletedTimestamp>>
          /\ \A s \in ShutdownIds :
               (/\ shutdownCall[s] = "idle"
                /\ shutdownCall'[s] # "idle"
                /\ \E t \in ShutdownIds : shutdownCall[t] = "returned")
                 => shutdownCall'[s] = "returned"]_vars

\* a second shutdown() has been called with items still pending
C9Witness ==
  /\ shutdownCall[2] # "idle"
  /\ Len(queue) > 0

\* C10: a failed attempt with "Priority is too low" and retries left adds
\* exactly 1 to the item's retry counter, puts the item at the head of the
\* pending list, changes no counter and does not settle the promise.
NonceConflictRetriesOnce ==
  [][\A i \in Items :
       (/\ lastAttempt'.item = i
        /\ lastAttempt'.result = "PriorityTooLow"
        /\ retryCount[i] < config.retryAttempts)
         => /\ retryCount' = [retryCount EXCEPT ![i] = @ + 1]
            /\ queue' = <<i>> \o queue
            /\ totalProcessed' = totalProcessed
            /\ totalFailed' = totalFailed
            /\ promise' = promise
            /\ settleCalls' = settleCalls
            /\ submitterCalls' = submitterCalls]_vars

\* the retried item is back at the head, in front of an item that arrived
\* during its attempt
C10Witness ==
  /\ lastAttempt.result = "PriorityTooLow"
  /\ Len(queue) = 2
  /\ Head(queue) = lastAttempt.item
  /\ retryCount[lastAttempt.item] = 1
  /\ promise[lastAttempt.item] = "pending"

InsufficientFundsNotRetried ==
  [][\A i \in Items :
       (/\ lastAttempt'.item = i
        /\ lastAttempt'.result = "InsufficientFunds"
        /\ retryCount[i] = 0)
         => /\ retryCount'[i] = 0
            /\ submitterCalls'[i] = 1
            /\ promise'[i] = "rejected"
            /\ outcome'[i] = "InsufficientFunds"]_vars

\* C13: an attempt failing with a message that is no nonce conflict is
\* terminal: no retry is scheduled, totalFailed grows by 1 and the promise is
\* rejected with that error; when it is the item's first failure the
\* submitter has been called exactly once for it.
OtherErrorsTerminal ==
  [][\A i \in Items, e \in ErrorNames :
       (/\ lastAttempt'.item = i
        /\ lastAttempt'.result = e
        /\ ~isNonceConflictDocumented(MessageText(e)))
         => /\ retryCount' = retryCount
            /\ retryCount[i] = 0 => submitterCalls'[i] = 1
            /\ totalFailed' = totalFailed + 1
            /\ promise'[i] = "rejected"
            /\ outcome'[i] = e]_vars

\* C14: an attempt failing with a message that holds a nonce/priority-race
\* phrase, in any letter case, is retried while retries are left.
NoncePhrasesRetried ==
  [][\A i \in Items, e \in ErrorNames :
       (/\ lastAttempt'.item = i
        /\ lastAttempt'.result = e
        /\ isNonceConflictDocumented(MessageText(e))
        /\ retryCount[i] < config.retryAttempts)
         => /\ retryCount'[i] = retryCount[i] + 1
            /\ InQueue(i, queue')
            /\ promise'[i] = promise[i]]_vars

Waiting(i) == InQueue(i, queue) \/ i \in InFlightItems

\* the promise was settled by the outcome of a submitter call
SettledByAttempt(i) ==
  promise[i] \in {"resolved", "rejected"} /\ outcome[i] \in ErrorNames \cup {"Result"}

\* C16: the pending list is in submission order and behind the item in
\* flight, and when an item is settled by its attempt no item submitted
\* before it still waits.
SubmissionOrderKept ==
  /\ \A k, l \in 1..Len(queue) : k < l => queue[k] < queue[l]
  /\ \A i \in InFlightItems : \A k \in 1..Len(queue) : i < queue[k]
  /\ \A i, j \in Items :
       (i < j /\ submitterCalls[j] > 0) => ~Waiting(i)

\* a retried item was attempted again and settled while a later item waits
C16Witness ==
  \E i, j \in Items :
    /\ i < j
    /\ retryCount[i] > 0
    /\ SettledByAttempt(i)
    /\ Waiting(j)

\* ================================================================ server.ts
\* -------------------------------------------------- connection management
Min(a, b) == IF a < b THEN a ELSE b

RECURSIVE pow(_, _)
\* Math.pow on naturals
pow(base, exponent) ==
  IF exponent = 0 THEN 1 ELSE base * pow(base, exponent - 1)

\* the delay without the Math.min against the cap
reconnectDelayUncapped(n) == BASE_RECONNECT_DELAY * pow(2, n - 1)

\* the delay attemptReconnection() computes for attempt n
reconnectDelay(n) ==
  Min(BASE_RECONNECT_DELAY * pow(2, n - 1), RECONNECT_DELAY_CAP)

CreatedSessions == 1..sessionsCreated

\* the negation of `!zkSession || !zkSession.provider.isConnected`
SessionAvailable == zkSession # 0 /\ isConnected[zkSession]

\* attemptReconnection() calls that are waiting: for their delay, for the
\* handshake, or for the timer that calls attemptReconnection() again
ActiveReconnections == backoffTimers + handshakes + retryTimers

\* room for one more attemptReconnection() call to start waiting
ReconnectionRoom ==
  \/ isReconnecting
  \/ reconnectionAttempts >= MAX_RECONNECTION_ATTEMPTS
  \/ ActiveReconnections < MaxReconnections

attemptReconnectionFrame ==
  UNCHANGED <<isReconnecting, reconnectionAttempts, backoffTimers, delay>>

\* attemptReconnection() without the check of the attempt budget
attemptReconnectionWithoutLimit ==
  IF isReconnecting
  THEN attemptReconnectionFrame /\ UNCHANGED gaveUp
  ELSE /\ isReconnecting' = TRUE
       /\ reconnectionAttempts' = reconnectionAttempts + 1
       /\ delay' = reconnectDelay(reconnectionAttempts')
       /\ backoffTimers' = backoffTimers + 1
       /\ UNCHANGED gaveUp

\* attemptReconnection() up to its first await
attemptReconnection ==
  IF isReconnecting
  THEN attemptReconnectionFrame /\ UNCHANGED gaveUp
  ELSE IF reconnectionAttempts >= MAX_RECONNECTION_ATTEMPTS
  THEN gaveUp' = TRUE /\ attemptReconnectionFrame
  ELSE /\ isReconnecting' = TRUE
       /\ reconnectionAttempts' = reconnectionAttempts + 1
       /\ delay' = reconnectDelay(reconnectionAttempts')
       /\ backoffTimers' = backoffTimers + 1
       /\ UNCHANGED gaveUp

\* monitorSessionConnection() for the session s just stored in zkSession:
\* disconnectCleanup holds the unsubscribe of the listener registered last
monitorSessionConnection(s) ==
  /\ onDisconnected' = [onDisconnected EXCEPT ![s] = TRUE]
  /\ onConnected' =
       [t \in SessionIds |->
          IF t = s THEN TRUE
          ELSE IF t = disconnectCleanup THEN FALSE
          ELSE onConnected[t]]
  /\ disconnectCleanup' = s

\* the process runs: shutdown() may be waiting for the queue ("draining")
\* or for zkSession.close() ("closing"), which stops nothing else
ServerUp == phase \in {"running", "draining", "closing"}

\* start(): zkSession = await initializeZkSession(), then the queue is
\* created and the server listens
StartSucceeds ==
  /\ phase = "starting"
  /\ phase' = "running"
  /\ sessionsCreated' = sessionsCreated + 1
  /\ zkSession' = sessionsCreated'
  /\ isConnected' = [isConnected EXCEPT ![sessionsCreated'] = TRUE]
  /\ monitorSessionConnection(sessionsCreated')
  /\ UNCHANGED <<reconnectVars, request, queueModuleVars, classifierVars>>

\* start(): initializeZkSession() throws, the catch calls process.exit(1)
StartFails ==
  /\ phase = "starting"
  /\ phase' = "exited"
  /\ UNCHANGED <<sessionVars, reconnectVars, request, queueModuleVars, classifierVars>>

\* the provider of session s emits 'disconnected'
ProviderDisconnected(s) ==
  /\ ServerUp
  /\ s \in CreatedSessions
  /\ isConnected[s]
  /\ ReconnectionRoom
  /\ isConnected' = [isConnected EXCEPT ![s] = FALSE]
  /\ IF onDisconnected[s]
     THEN zkSession' = 0 /\ attemptReconnection
     ELSE UNCHANGED zkSession /\ attemptReconnectionFrame /\ UNCHANGED gaveUp
  /\ UNCHANGED <<phase, sessionsCreated, onDisconnected, onConnected,
                 disconnectCleanup, handshakes, retryTimers, request,
                 queueModuleVars, classifierVars>>

\* the provider of session s has reconnected by itself and emits 'connected'
ProviderConnected(s) ==
  /\ ServerUp
  /\ s \in CreatedSessions
  /\ ~isConnected[s]
  /\ isConnected' = [isConnected EXCEPT ![s] = TRUE]
  /\ IF onConnected[s]
     THEN reconnectionAttempts' = 0 /\ isReconnecting' = FALSE
     ELSE UNCHANGED <<reconnectionAttempts, isReconnecting>>
  /\ UNCHANGED <<phase, zkSession, sessionsCreated, onDisconnected,
                 onConnected, disconnectCleanup, backoffTimers, handshakes,
                 retryTimers, delay, gaveUp, request, queueModuleVars, classifierVars>>

\* the setTimeout(resolve, delay) of one attemptReconnection() call fires:
\* it goes on to call initializeZkSession()
BackoffElapsed ==
  /\ ServerUp
  /\ backoffTimers > 0
  /\ backoffTimers' = backoffTimers - 1
  /\ handshakes' = handshakes + 1
  /\ UNCHANGED <<phase, sessionVars, isReconnecting, reconnectionAttempts,
                 retryTimers, delay, gaveUp, request, queueModuleVars, classifierVars>>

\* initializeZkSession() of a reconnection returns a session
HandshakeSucceeds ==
  /\ ServerUp
  /\ handshakes > 0
  /\ sessionsCreated < MaxSessions
  /\ handshakes' = handshakes - 1
  /\ sessionsCreated' = sessionsCreated + 1
  /\ zkSession' = sessionsCreated'
  /\ isConnected' = [isConnected EXCEPT ![sessionsCreated'] = TRUE]
  /\ reconnectionAttempts' = 0
  /\ isReconnecting' = FALSE
  /\ monitorSessionConnection(sessionsCreated')
  /\ UNCHANGED <<phase, backoffTimers, retryTimers, delay, gaveUp, request,
                 queueModuleVars, classifierVars>>

\* the catch without the setTimeout that calls attemptReconnection() again
HandshakeFailsWithoutRetry ==
  /\ ServerUp
  /\ handshakes > 0
  /\ handshakes' = handshakes - 1
  /\ isReconnecting' = FALSE
  /\ UNCHANGED <<phase, sessionVars, reconnectionAttempts, backoffTimers,
                 retryTimers, delay, gaveUp, request, queueModuleVars, classifierVars>>

\* initializeZkSession() of a reconnection throws
HandshakeFails ==
  /\ ServerUp
  /\ handshakes > 0
  /\ handshakes' = handshakes - 1
  /\ isReconnecting' = FALSE
  /\ retryTimers' = retryTimers + 1
  /\ UNCHANGED <<phase, sessionVars, reconnectionAttempts, backoffTimers,
                 delay, gaveUp, request, queueModuleVars, classifierVars>>

\* setTimeout(() => attemptReconnection(), 0) fires
RetryTimerFires ==
  /\ ServerUp
  /\ retryTimers > 0
  /\ retryTimers' = retryTimers - 1
  /\ attemptReconnection
  /\ UNCHANGED <<phase, sessionVars, handshakes, request, queueModuleVars, classifierVars>>

\* ------------------------------------------------------ POST /verify-score
\* request bodies: proof after sanitizeProofData is falsy or an object;
\* publicSignals is undefined, a non-array value, [] or a non-empty array
Proofs == {"missing", "object"}
PublicSignals == {"undefined", "notArray", "empty", "nonEmpty"}

\* validateProofAndSignals without the check of the array's length
validateProofAndSignalsAcceptingEmpty(proof, publicSignals) ==
  IF proof = "missing"
  THEN [valid |-> FALSE, error |-> "Proof is required"]
  ELSE IF publicSignals \in {"undefined", "notArray"}
  THEN [valid |-> FALSE, error |-> "Public signals must be an array"]
  ELSE [valid |-> TRUE, error |-> ""]

validateProofAndSignals(proof, publicSignals) ==
  IF proof = "missing"
  THEN [valid |-> FALSE, error |-> "Proof is required"]
  ELSE IF publicSignals \in {"undefined", "notArray"}
  THEN [valid |-> FALSE, error |-> "Public signals must be an array"]
  ELSE IF publicSignals = "empty"
  THEN [valid |-> FALSE, error |-> "Public signals array is empty"]
  ELSE [valid |-> TRUE, error |-> ""]

\* the handler up to `await transactionQueue.submit(...)`: validation, then
\* the session check, then the request is handed to the queue, which
\* rejects it once shutdown() has been called
HandleVerifyScore(r, proof, publicSignals) ==
  /\ ServerUp
  /\ request[r] = "none"
  /\ request' = [request EXCEPT ![r] =
       IF ~validateProofAndSignals(proof, publicSignals).valid
       THEN "invalid400"
       ELSE IF ~SessionAvailable THEN "unavailable503"
       ELSE IF phase # "running" THEN "failed"
       ELSE "queued"]
  /\ UNCHANGED <<phase, sessionVars, reconnectVars, queueModuleVars, classifierVars>>

\* what processQueue() does with a submitter call that threw errorMessage:
\* back to the queue while it is a nonce conflict with budget left
AfterRejection(errorMessage, budgetLeft, failure) ==
  IF isNonceConflict(errorMessage) /\ budgetLeft THEN "queued" ELSE failure

\* submitProofTransaction() without the check of the session
SubmitProofTransactionWithoutSessionCheck(r, budgetLeft) ==
  /\ phase = "running"
  /\ request[r] = "queued"
  /\ request' = [request EXCEPT ![r] = "dispatched"]
  /\ UNCHANGED <<phase, sessionVars, reconnectVars, queueModuleVars, classifierVars>>

\* the queue's worker calls the submitter for a queued request:
\* submitProofTransaction() up to its first await
SubmitProofTransaction(r, budgetLeft) ==
  /\ phase = "running"
  /\ request[r] = "queued"
  /\ request' = [request EXCEPT ![r] =
       IF ~SessionAvailable
       THEN AfterRejection(MsgSessionNotAvailable, budgetLeft,
                           "failedUnavailable")
       ELSE "dispatched"]
  /\ UNCHANGED <<phase, sessionVars, reconnectVars, queueModuleVars, classifierVars>>

\* zkSession.verify()...execute() and transactionResult resolve
RemoteVerifySucceeds(r) ==
  /\ ServerUp
  /\ request[r] = "dispatched"
  /\ request' = [request EXCEPT ![r] = "resolved"]
  /\ UNCHANGED <<phase, sessionVars, reconnectVars, queueModuleVars, classifierVars>>

\* ... or reject with the message named e
RemoteVerifyFails(r, e, budgetLeft) ==
  /\ ServerUp
  /\ request[r] = "dispatched"
  /\ request' = [request EXCEPT ![r] =
       AfterRejection(MessageText(e), budgetLeft, "failed")]
  /\ UNCHANGED <<phase, sessionVars, reconnectVars, queueModuleVars, classifierVars>>

\* the timer of submit() fires while the request is pending in the queue
RequestTimesOut(r) ==
  /\ ServerUp
  /\ request[r] = "queued"
  /\ request' = [request EXCEPT ![r] = "failed"]
  /\ UNCHANGED <<phase, sessionVars, reconnectVars, queueModuleVars, classifierVars>>

\* --------------------------------------------------------- specification
\* the server: start(), the provider events, the reconnection timers and
\* handshakes, and /verify-score requests with their submitter calls
NextServer ==
  \/ StartSucceeds
  \/ StartFails
  \/ \E s \in SessionIds : ProviderDisconnected(s)
  \/ \E s \in SessionIds : ProviderConnected(s)
  \/ BackoffElapsed
  \/ HandshakeSucceeds
  \/ HandshakeFails
  \/ RetryTimerFires
  \/ \E r \in Requests, proof \in Proofs, publicSignals \in PublicSignals :
       HandleVerifyScore(r, proof, publicSignals)
  \/ \E r \in Requests, budgetLeft \in BOOLEAN :
       SubmitProofTransaction(r, budgetLeft)
  \/ \E r \in Requests : RemoteVerifySucceeds(r)
  \/ \E r \in Requests, e \in ErrorNames, budgetLeft \in BOOLEAN :
       RemoteVerifyFails(r, e, budgetLeft)
  \/ \E r \in Requests : RequestTimesOut(r)

\* the queue configuration plays no part here: one value of it
InitServer == Init /\ config.retryAttempts = MaxRetryAttempts

SpecServer == InitServer /\ [][NextServer]_vars

\* ---------------------------------------------------------- shutdown()
\* the queue holds a request: its worker is in processQueue()
QueueProcessing == \E r \in Requests : request[r] \in {"queued", "dispatched"}

\* where shutdown() waits next once the queue has shut down
AfterQueueShutdown == IF zkSession # 0 THEN "closing" ELSE "exited"

\* SIGTERM or SIGINT: shutdown() runs up to its first wait.
\* transactionQueue.shutdown() waits only while the queue is processing;
\* before start() has created the queue and the session, shutdown() goes
\* straight to process.exit(0)
ShutdownRequested ==
  /\ phase \in {"starting", "running"}
  /\ phase' = IF phase = "starting" THEN "exited"
              ELSE IF QueueProcessing THEN "draining"
              ELSE AfterQueueShutdown
  /\ UNCHANGED <<sessionVars, reconnectVars, request, queueModuleVars, classifierVars>>

\* transactionQueue.shutdown() returns once no attempt is in flight:
\* zkSession.close() is awaited if there is a session, else the process exits
QueueShutDown ==
  /\ phase = "draining"
  /\ \A r \in Requests : request[r] # "dispatched"
  /\ phase' = AfterQueueShutdown
  /\ UNCHANGED <<sessionVars, reconnectVars, request, queueModuleVars, classifierVars>>

\* zkSession.close() has returned: disconnectCleanup(), process.exit(0)
SessionClosed ==
  /\ phase = "closing"
  /\ phase' = "exited"
  /\ UNCHANGED <<sessionVars, reconnectVars, request, queueModuleVars, classifierVars>>

\* the server with shutdown()
NextServerShutdown ==
  \/ NextServer
  \/ ShutdownRequested
  \/ QueueShutDown
  \/ SessionClosed

SpecServerShutdown == InitServer /\ [][NextServerShutdown]_vars

ServerTypeOK ==
  /\ phase \in {"starting", "running", "draining", "closing", "exited"}
  /\ zkSession \in 0..sessionsCreated
  /\ sessionsCreated \in 0..MaxSessions
  /\ reconnectionAttempts \in 0..MAX_RECONNECTION_ATTEMPTS
  /\ ActiveReconnections \in 0..MaxReconnections
  /\ \A r \in Requests :
       request[r] \in {"none", "invalid400", "unavailable503", "queued",
                       "dispatched", "resolved", "failed", "failedUnavailable"}

\* ------------------------------------------------------ server properties
\* the handler of request r has just run past validation
Arrives(r) == request[r] = "none" /\ request'[r] \notin {"none", "invalid400"}

\* C17: a request that arrives while no connected session is available is
\* handed to the queue (not answered with an error), and no request fails
\* because the session was unavailable when its attempt was made
DisconnectedRequestIsDeferred ==
  [][\A r \in Requests :
       /\ Arrives(r) /\ ~SessionAvailable => request'[r] = "queued"
       /\ request'[r] # "failedUnavailable"]_vars

\* C18: the remote verify call of a request is started only in a step taken
\* while zkSession is set and its provider reports connected; a submitter
\* call made in any other state ends without reaching the chain
DispatchedOnlyWhileAvailable ==
  [][\A r \in Requests :
       /\ request[r] # "dispatched" /\ request'[r] = "dispatched"
            => SessionAvailable /\ zkSession \in CreatedSessions
       /\ request[r] = "queued" /\ ~SessionAvailable
            => request'[r] \in {"queued", "failed", "failedUnavailable"}]_vars

\* a submitter call found no connected session and threw
C18Witness == \E r \in Requests : request[r] = "failedUnavailable"

\* C19: at most one attemptReconnection() call is waiting for its backoff
\* delay or for its handshake
AtMostOneReconnection == backoffTimers + handshakes <= 1

\* attemptReconnection() has given up and none of its calls is waiting
GivingUp == gaveUp /\ ActiveReconnections = 0

\* C20: once attemptReconnection() has given up and nothing is waiting,
\* no step starts a backoff wait, a handshake or a retry timer
GivingUpIsTerminal == [][GivingUp => ActiveReconnections' = 0]_vars

\* the waits in milliseconds for attempts 1 to 10: doubling from 1000, and
\* 30000 from attempt 6 on
ExpectedDelay ==
  <<1000, 2000, 4000, 8000, 16000, 30000, 30000, 30000, 30000, 30000>>

\* C22: whenever attemptReconnection() starts a backoff wait, the delay it
\* computed for the attempt number it has just incremented to is the tabled one
BackoffDelayAsTabled ==
  [][backoffTimers' > backoffTimers
       => /\ reconnectionAttempts' \in 1..MAX_RECONNECTION_ATTEMPTS
          /\ delay' = ExpectedDelay[reconnectionAttempts']]_vars

\* a wait at the cap: attempt 7 waits 30000, where doubling would give 64000
C22Witness ==
  reconnectionAttempts = 7 /\ backoffTimers = 1 /\ delay = RECONNECT_DELAY_CAP

\* initializeZkSession() has just returned a session
HandshakeSucceeded == sessionsCreated' > sessionsCreated

\* the session in zkSession is dropped by a 'disconnected' listener
SessionDropped == zkSession # 0 /\ zkSession' = 0

\* C27: every successful handshake leaves reconnectionAttempts at 0, and
\* the disconnect that next drops the session starts attempt 1 with the
\* base delay
HandshakeResetsAttempts ==
  [][/\ HandshakeSucceeded => reconnectionAttempts' = 0
     /\ SessionDropped => /\ reconnectionAttempts' = 1
                          /\ delay' = BASE_RECONNECT_DELAY]_vars

\* the first handshake, the one start() awaits, has just failed
StartHandshakeFailed == phase = "starting" /\ phase' = "exited"

\* the handshake of an attemptReconnection() call has just failed
ReconnectHandshakeFailed ==
  handshakes' = handshakes - 1 /\ sessionsCreated' = sessionsCreated

\* the timer set by a failed handshake has just called attemptReconnection()
RetryCalled == retryTimers' = retryTimers - 1

BudgetRemains == reconnectionAttempts < MAX_RECONNECTION_ATTEMPTS

\* C26 as stated: after any failed handshake with budget left, the first
\* one included, the server keeps running and a retry is on its way
AnyFailedHandshakeRetries ==
  [][(StartHandshakeFailed \/ ReconnectHandshakeFailed) /\ BudgetRemains
       => phase' = "running" /\ ActiveReconnections' >= 1]_vars

\* C26, amended: a failed handshake of attemptReconnection() sets the timer
\* that calls attemptReconnection() again, and that call starts the next
\* backoff wait with the next attempt number when budget remains and no
\* other call is in progress; a failed first handshake ends the process,
\* which takes no step afterwards
FailedReconnectHandshakeRetries ==
  [][/\ phase # "exited"
     /\ ReconnectHandshakeFailed
          => /\ phase' = phase
             /\ ~isReconnecting'
             /\ retryTimers' = retryTimers + 1
     /\ RetryCalled /\ BudgetRemains /\ ~isReconnecting
          => /\ backoffTimers' = backoffTimers + 1
             /\ reconnectionAttempts' = reconnectionAttempts + 1
             /\ delay' = reconnectDelay(reconnectionAttempts + 1)
             /\ isReconnecting'
     /\ StartHandshakeFailed
          => ActiveReconnections' = 0 /\ ~isReconnecting']_vars

\* the second attempt is waiting for its delay after the first one failed
C26Witness ==
  /\ reconnectionAttempts = 2
  /\ backoffTimers = 1
  /\ handshakes + retryTimers = 0
  /\ sessionsCreated = 1
  /\ \A s \in CreatedSessions : ~isConnected[s] /\ onConnected[s]

\* shutdown() has been called and the process has not exited yet
ShutdownInProgress == phase \in {"draining", "closing"}

\* C21: once shutdown() has been called, no reconnection handshake is
\* started and no session is established
ShutdownAbandonsReconnection ==
  [][ShutdownInProgress
       => handshakes' <= handshakes /\ sessionsCreated' = sessionsCreated]_vars

\* the bodies the claim names: no proof, publicSignals that is not an
\* array, an empty publicSignals array
InvalidBody(proof, publicSignals) ==
  \/ proof = "missing"
  \/ publicSignals \in {"undefined", "notArray"}
  \/ publicSignals = "empty"

\* C25: a step in which the handler takes a request whose body has no
\* proof, publicSignals that is not an array, or an empty publicSignals
\* array answers it with 400 and changes nothing of the queue; a request
\* answered 400 never becomes queued or dispatched afterwards
InvalidRequestRejectedBeforeQueue ==
  [][\A r \in Requests :
       /\ \A proof \in Proofs, publicSignals \in PublicSignals :
            /\ InvalidBody(proof, publicSignals)
            /\ HandleVerifyScore(r, proof, publicSignals)
            => request'[r] = "invalid400" /\ UNCHANGED queueModuleVars
       /\ request[r] = "invalid400" => request'[r] = "invalid400"]_vars

\* a request has been refused by validation while the session was
\* available and the server was running
C25Witness ==
  /\ \E r \in Requests : request[r] = "invalid400"
  /\ SessionAvailable
  /\ phase = "running"

\* ============================================== categorizeTransactionError
\* phrases error messages are made of
Phrases == <<
  <<"p","r","i","o","r","i","t","y"," ","i","s"," ","t","o","o"," ","l","o",
    "w">>,
  <<"1","0","1","4">>,
  <<"s","t","a","l","e"," ","n","o","n","c","e">>,
  <<"n","o","n","c","e"," ","t","o","o"," ","l","o","w">>,
  <<"n","o","n","c","e"," ","m","i","s","m","a","t","c","h">>,
  <<"t","r","a","n","s","a","c","t","i","o","n"," ","i","s"," ","a","l","r",
    "e","a","d","y"," ","i","n"," ","t","h","e"," ","p","o","o","l">>,
  <<"i","n","v","a","l","i","d"," ","t","r","a","n","s","a","c","t","i","o",
    "n">>,
  <<"n","o","n","c","e">>,
  <<"i","n","s","u","f","f","i","c","i","e","n","t"," ","b","a","l","a","n",
    "c","e">>,
  <<"p","a","y","m","e","n","t">>,
  <<"n","e","t","w","o","r","k">>,
  <<"c","o","n","n","e","c","t","i","o","n">>,
  <<"t","i","m","e","o","u","t">>,
  <<"p","r","o","o","f">>,
  <<"v","e","r","i","f","i","c","a","t","i","o","n">>,
  <<"m","i","s","s","i","n","g">>,
  <<"i","n","v","a","l","i","d">>,
  <<"s","u","b","m","i","s","s","i","o","n">>,
  <<"s","e","s","s","i","o","n">>,
  <<"i","n","s","u","f","f","i","c","i","e","n","t"," ","f","u","n","d",
    "s">>
  >>

\* error.message values: up to MaxPhrases phrases joined by ": ", as they
\* are or in upper case
MaxPhrases == 2

PhraseLists ==
  UNION {[1..n -> 1..Len(Phrases)] : n \in 1..MaxPhrases}

ErrorValues == [phrases : PhraseLists, upper : BOOLEAN]

\* String.prototype.toUpperCase
toUpperChar(c) ==
  IF \E k \in 1..Len(LowerCase) : LowerCase[k] = c
  THEN UpperCase[CHOOSE k \in 1..Len(LowerCase) : LowerCase[k] = c]
  ELSE c
toUpperCase(s) == [k \in 1..Len(s) |-> toUpperChar(s[k])]

RECURSIVE Joined(_)
Joined(phrases) ==
  IF Len(phrases) = 1 THEN Phrases[phrases[1]]
  ELSE Phrases[phrases[1]] \o <<":", " ">> \o Joined(Tail(phrases))

\* error.message of an error value
MessageOf(e) == IF e.upper THEN toUpperCase(Joined(e.phrases)) ELSE Joined(e.phrases)

categorizeTransactionError(message) ==
  LET lowerMessage == toLowerCase(message)
      includes(k) == Includes(lowerMessage, Phrases[k])
  IN \* 'priority is too low', '1014'
     IF includes(1) \/ includes(2) THEN "TRANSACTION_ERROR"
     \* 'invalid transaction'
     ELSE IF includes(7) THEN "TRANSACTION_ERROR"
     \* 'insufficient balance', 'payment'
     ELSE IF includes(9) \/ includes(10) THEN "TRANSACTION_ERROR"
     \* 'network', 'connection'
     ELSE IF includes(11) \/ includes(12) THEN "NETWORK_ERROR"
     \* 'timeout'
     ELSE IF includes(13) THEN "NETWORK_ERROR"
     \* 'proof', 'verification'
     ELSE IF includes(14) \/ includes(15) THEN "VERIFICATION_FAILED"
     \* 'missing', 'invalid'
     ELSE IF includes(16) \/ includes(17) THEN "VALIDATION_ERROR"
     \* 'submission', 'session'
     ELSE IF includes(18) \/ includes(19) THEN "SUBMISSION_ERROR"
     ELSE "UNKNOWN_ERROR"

\* categorizeError of zkFailureLogger.ts (categorizeZkError in server.ts)
categorizeError(errorMessage) ==
  LET message == toLowerCase(errorMessage)
      includes(k) == Includes(message, Phrases[k])
      transaction == <<"t","r","a","n","s","a","c","t","i","o","n">>
      balance == <<"b","a","l","a","n","c","e">>
  IN \* "missing", "invalid"
     IF includes(16) \/ includes(17) THEN "VALIDATION_ERROR"
     \* "verification", "proof"
     ELSE IF includes(15) \/ includes(14) THEN "VERIFICATION_FAILED"
     \* "transaction", "balance"
     ELSE IF Includes(message, transaction) \/ Includes(message, balance)
     THEN "TRANSACTION_ERROR"
     \* "network", "timeout", "connection"
     ELSE IF includes(11) \/ includes(13) \/ includes(12) THEN "NETWORK_ERROR"
     \* "submission", "session"
     ELSE IF includes(18) \/ includes(19) THEN "SUBMISSION_ERROR"
     ELSE "UNKNOWN_ERROR"

\* the catch of the /verify-score handler receives the error e: it
\* categorizes it for the reply and for the failure log (the functions
\* keep no state: one call per behaviour covers every input)
CatchError(e) ==
  /\ error = NoError
  /\ error' = e
  /\ errorType' = categorizeTransactionError(MessageOf(e))
  /\ failureType' = categorizeError(MessageOf(e))
  /\ UNCHANGED <<queueModuleVars, serverVars>>

NextClassifier == \E e \in ErrorValues : CatchError(e)

SpecClassifier == InitServer /\ [][NextClassifier]_vars

\* the category the eight rules give, in their order: nonce-race phrases;
\* "invalid transaction" along with "nonce"; insufficient balance or
\* payment; network, connection or timeout; proof or verification; missing
\* or invalid; submission or session; anything else
CategoryByRules(message) ==
  LET lowerMessage == toLowerCase(message)
      has(k) == Includes(lowerMessage, Phrases[k])
  IN \* "priority is too low", "stale nonce", "nonce too low", "nonce
     \* mismatch", "transaction is already in the pool", the code 1014
     IF has(1) \/ has(3) \/ has(4) \/ has(5) \/ has(6) \/ has(2)
     THEN "TRANSACTION_ERROR"
     \* "invalid transaction" with "nonce"
     ELSE IF has(7) /\ has(8) THEN "TRANSACTION_ERROR"
     ELSE IF has(9) \/ has(10) THEN "TRANSACTION_ERROR"
     ELSE IF has(11) \/ has(12) \/ has(13) THEN "NETWORK_ERROR"
     ELSE IF has(14) \/ has(15) THEN "VERIFICATION_FAILED"
     ELSE IF has(16) \/ has(17) THEN "VALIDATION_ERROR"
     ELSE IF has(18) \/ has(19) THEN "SUBMISSION_ERROR"
     ELSE "UNKNOWN_ERROR"

\* C23: the category categorizeTransactionError returns for a message is
\* the one the eight rules give, first match winning, whatever the case
CategoryFollowsRules ==
  error # NoError => errorType = CategoryByRules(MessageOf(error))

\* ------------------------------------------------ no duplicate submission
\* C24: the submitter is invoked again for an item only after an attempt of
\* that item failed with a nonce conflict: a retry is counted only in the
\* step in which an attempt of the item failed with a nonce conflict
\* message, every call after the first is paid by one counted retry, and
\* the submitter is never called for an item whose promise is settled or
\* which has left the pending list.
NoDuplicateSubmission ==
  [][\A i \in Items :
       /\ retryCount'[i] > retryCount[i]
            => /\ lastAttempt'.item = i
               /\ lastAttempt'.result \in ErrorNames
               /\ isNonceConflictDocumented(MessageText(lastAttempt'.result))
       /\ submitterCalls'[i] <= retryCount'[i] + 1
       /\ submitterCalls'[i] > submitterCalls[i]
            => /\ promise[i] \in {"none", "pending"}
               /\ promise[i] = "pending" => InQueue(i, queue)]_vars

\* the same with the classification the queue computes
NoDuplicateSubmissionAsCoded ==
  [][\A i \in Items :
       /\ retryCount'[i] > retryCount[i]
            => /\ lastAttempt'.item = i
               /\ lastAttempt'.result \in ErrorNames
               /\ isNonceConflict(MessageText(lastAttempt'.result))
       /\ submitterCalls'[i] <= retryCount'[i] + 1
       /\ submitterCalls'[i] > submitterCalls[i]
            => /\ promise[i] \in {"none", "pending"}
               /\ promise[i] = "pending" => InQueue(i, queue)]_vars

\* ---------------------------------------------------- cumulative counters
\* items submit() has accepted
AcceptedItems == {i \in Items : itemTimeout[i] # "unset"}

\* the step is the settling of a submitter call
AttemptSucceeded == lastAttempt'.result = "Result"
AttemptFailedTerminally ==
  lastAttempt'.result \in ErrorNames /\ retryCount' = retryCount

\* C30: both counters start at 0; totalProcessed grows by exactly 1 in a
\* step in which an attempt succeeds and totalFailed by exactly 1 in a step
\* in which an attempt fails terminally; every other step (a retry, a
\* timeout, clearQueue, shutdown, submit) leaves both unchanged; and their
\* sum never exceeds the number of accepted items.
CountersCountOnce ==
  /\ totalProcessed = 0 /\ totalFailed = 0
  /\ [][/\ totalProcessed' =
             IF AttemptSucceeded THEN totalProcessed + 1 ELSE totalProcessed
        /\ totalFailed' =
             IF AttemptFailedTerminally THEN totalFailed + 1 ELSE totalFailed
        /\ totalProcessed' + totalFailed' <= Cardinality(AcceptedItems')]_vars

\* one item succeeded after a retry, another failed terminally
C30Witness ==
  /\ totalProcessed = 1
  /\ totalFailed = 1
  /\ \E i \in Items : retryCount[i] > 0 /\ outcome[i] = "Result"

\* ------------------------------------------------------------ concurrency
\* items in the pending list or with the submitter
WaitingItems == {i \in Items : Waiting(i)}

\* no worker sleeps between a failed attempt and its retry
NoRetryDelay == \A w \in WorkerIds : worker[w].pc # "delay"

\* C29: the number of outstanding submitter calls never exceeds
\* config.maxConcurrent, and when maxConcurrent = n > 1 and at least n items
\* wait (no shutdown, no retry delay running), n submitter calls are
\* outstanding.
MaxConcurrentHonoured ==
  /\ Cardinality(AwaitingWorkers) <= config.maxConcurrent
  /\ (/\ config.maxConcurrent > 1
      /\ Cardinality(WaitingItems) >= config.maxConcurrent
      /\ ~isShuttingDown
      /\ NoRetryDelay)
       => Cardinality(AwaitingWorkers) = config.maxConcurrent

\* the upper bound alone
InFlightWithinMaxConcurrent ==
  Cardinality(AwaitingWorkers) <= config.maxConcurrent

\* ------------------------------------------------- requests after GivingUp
\* the queue's worker loop calls the submitter for every pending item, the
\* call it awaits settles, and the timer of a pending item fires
ServerFairness ==
  /\ WF_vars(\E r \in Requests, budgetLeft \in BOOLEAN :
               SubmitProofTransaction(r, budgetLeft))
  /\ WF_vars(\E r \in Requests : RequestTimesOut(r))
  /\ WF_vars(\E r \in Requests :
               \/ RemoteVerifySucceeds(r)
               \/ \E e \in ErrorNames : RemoteVerifyFails(r, e, FALSE))

SpecServerFair == InitServer /\ [][NextServer]_vars /\ ServerFairness

\* the request was answered with an error
RequestFailed(r) ==
  request[r] \in {"invalid400", "unavailable503", "failed", "failedUnavailable"}

\* the request has not arrived yet or waits in the queue
RequestPendingOrFuture(r) == request[r] \in {"none", "queued"}

\* a request that was pending or yet to come when the manager gave up is
\* never handed to the session and never succeeds
NoneSubmittedAfterGivingUp ==
  \A r \in Requests :
    [](GivingUp /\ RequestPendingOrFuture(r)
         => [](request[r] \notin {"dispatched", "resolved"}))

\* a request pending in the queue when the manager gave up eventually fails
PendingFailsAfterGivingUp ==
  \A r \in Requests : (GivingUp /\ request[r] = "queued") ~> RequestFailed(r)

\* C28: after GivingUp a request that is pending or arrives later is never
\* handed to the session, never succeeds, and a pending one eventually
\* fails.
AfterGivingUpItemsFail ==
  NoneSubmittedAfterGivingUp /\ PendingFailsAfterGivingUp

\* ------------------------------------------------------------ active slot
\* C31: without pause(), the active slot is filled exactly while a
\* submitter call is outstanding and then holds the id, the enqueue
\* timestamp and the retry counter of the item of that call; it is empty
\* whenever no call is outstanding: the worker is idle or sleeps before a
\* retry.
ActiveSlotTracksAttempt ==
  /\ activeTransaction # NoTransaction <=> AwaitingWorkers # {}
  /\ \A w \in AwaitingWorkers :
       /\ activeTransaction.id = worker[w].item
       /\ activeTransaction.retryCount = retryCount[worker[w].item]
       /\ activeTransaction.timestamp = timestamp[worker[w].item]

\* the retried attempt of an item is in flight: the slot shows retry 1
C31Witness ==
  /\ activeTransaction # NoTransaction
  /\ activeTransaction.retryCount = 1
  /\ \E w \in AwaitingWorkers : worker[w].item = activeTransaction.id

\* ------------------------------------------------------ pause and resume
\* worker loops of processQueue() that have not returned
RunningWorkers == {w \in WorkerIds : worker[w].pc # "idle"}

\* C33: with pause(), resume(), submit(), clearQueue() and shutdown() in
\* any order, at most one submitter call is outstanding and at most one
\* worker loop runs.
SingleWorkerLoopWithPause ==
  /\ Cardinality(AwaitingWorkers) <= 1
  /\ Cardinality(RunningWorkers) <= 1

\* pause() was called while a worker loop runs and no processQueue() call
\* has set the flag again: only pause() clears isProcessing under a
\* running loop
PausedMidLoop == ~isProcessing /\ RunningWorkers # {}

\* C34: after pause() no submitter call starts until resume() is called:
\* in a paused state a step that is not resume() starts no attempt, and
\* the pending list loses no item to an attempt.
NoAttemptWhilePaused ==
  [][(PausedMidLoop /\ ~Resume) => submitterCalls' = submitterCalls]_vars

\* ------------------------------------------------------ superseded sessions
\* session s was replaced: zkSession holds a session created after it
Superseded(s) == zkSession # 0 /\ s \in CreatedSessions /\ s < zkSession

\* C35: a 'disconnected' event of a superseded session changes neither
\* zkSession nor the state of the reconnection (flag, counter, timers).
StaleDisconnectIgnored ==
  [][\A s \in SessionIds :
       (Superseded(s) /\ ProviderDisconnected(s))
         => UNCHANGED <<zkSession, reconnectVars>>]_vars

\* --------------------------------------------------------- conservation
\* where an accepted item is
IsPending(i) == InQueue(i, queue)
IsInFlight(i) == i \in InFlightItems
SettledWithSuccess(i) == promise[i] = "resolved"
SettledWithFailure(i) == promise[i] = "rejected" /\ outcome[i] \in ErrorNames
RemovedByTimeout(i) == promise[i] = "rejected" /\ outcome[i] = "Timeout"
\* gone from the pending list without an attempt or a timeout settling it
RemovedByClearQueue(i) ==
  promise[i] = "pending" /\ ~IsPending(i) /\ ~IsInFlight(i)

Indicator(b) == IF b THEN 1 ELSE 0

PlacesOf(i) ==
  Indicator(IsPending(i)) + Indicator(IsInFlight(i))
  + Indicator(SettledWithSuccess(i)) + Indicator(SettledWithFailure(i))
  + Indicator(RemovedByTimeout(i)) + Indicator(RemovedByClearQueue(i))

\* C36: every accepted item is in exactly one of: pending list, in flight,
\* settled with success, settled with failure, removed by timeout, removed
\* by clearQueue(); an item reaches the last place only in a clearQueue()
\* step; no item occurs twice in the pending list, and an item that was not
\* accepted is in neither the list nor in flight.
RequestsConserved ==
  /\ [](\A i \in Items :
          /\ i \in AcceptedItems => PlacesOf(i) = 1
          /\ i \notin AcceptedItems => ~IsPending(i) /\ ~IsInFlight(i)
          /\ Cardinality({k \in 1..Len(queue) : queue[k] = i}) <= 1)
  /\ [][\A i \in Items :
          (~RemovedByClearQueue(i) /\ RemovedByClearQueue(i)')
            => clearResult' # NoClear /\ IsPending(i)]_vars

\* ------------------------------------------------------- attempt counter
\* C37: the reconnection attempt counter stays within
\* 0..MAX_RECONNECTION_ATTEMPTS whatever the order of 'disconnected' and
\* 'connected' events, timers and handshake outcomes.
ReconnectionAttemptsBounded ==
  /\ 0 <= reconnectionAttempts
  /\ reconnectionAttempts <= MAX_RECONNECTION_ATTEMPTS

\* the last attempt of the budget is waiting for its delay or handshake
C37Witness ==
  /\ reconnectionAttempts = MAX_RECONNECTION_ATTEMPTS
  /\ isReconnecting
  /\ backoffTimers + handshakes > 0

\* ----------------------------------------------- failure log and reply
\* C39: for every error the /verify-score catch handles, the type written
\* to the failure log equals the errorType of the reply.
LoggedTypeIsRepliedType == error # NoError => failureType = errorType

\* ------------------------------------------------ order of notifications
\* notification b may directly follow notification a for the same item
MayFollow(a, b) ==
  \/ a = "none" /\ b = "enqueued"
  \/ a = "enqueued" /\ b = "processing"
  \/ a = "processing" /\ b \in {"retry", "completed", "failed"}
  \/ a = "retry" /\ b = "processing"

\* the notification emitted last for item i, then those of this step
NotifiedThen(i) == <<notified[i]>> \o EmittedFor(i)

OwnAttemptSettles(i) ==
  /\ \E w \in AwaitingWorkers : worker[w].item = i
  /\ lastAttempt'.item = i

\* C38: a caller's promise is resolved or rejected with a submitter outcome
\* only in a step in which a submitter call made with that caller's item
\* settles, and with the outcome of that call; a promise once settled keeps
\* its outcome.
SettledWithOwnOutcome ==
  [][\A i \in Items :
       /\ (/\ promise[i] = "pending"
           /\ promise'[i] # "pending"
           /\ outcome'[i] \in ErrorNames \cup {"Result"})
            => /\ OwnAttemptSettles(i)
               /\ outcome'[i] = lastAttempt'.result
       /\ promise[i] \in {"resolved", "rejected"}
            => promise'[i] = promise[i] /\ outcome'[i] = outcome[i]]_vars

\* two callers wait, the second item pending behind the first in flight,
\* and then the second is settled by its own attempt after the first was
C38Witness ==
  \E i, j \in Items :
    /\ i < j
    /\ SettledByAttempt(i) /\ SettledByAttempt(j)
    /\ outcome[i] # outcome[j]
    /\ timestamp[j] < lastCompletedTimestamp

====
